---- MODULE Spec2Model ----
(***************************************************************************)
(* TypeSalad: the System singleton (package registry, key/value storage)   *)
(* and the Overloadable dispatch helper of src/TypeSalad.mjs.              *)
(*                                                                         *)
(* Host values are records [kind, num, str] so that values of different    *)
(* JavaScript kinds stay comparable; a value handed to the library is a    *)
(* record [type, raw] where type is the value's `.type` property (NoType   *)
(* when the property is undefined) and raw is what `.valueOf()` returns.   *)
(***************************************************************************)
EXTENDS Integers, Sequences, FiniteSets, TLC

VARIABLES
    Packages,     \* _System.Packages: own properties, name -> {enabled, instance}
    calls,        \* the UsePackage calls made so far, in the order they were issued
    emitted,      \* the packageUsed notifications emitted so far, in order
    fetched,      \* outcome of the most recent package accessor read
    Storage,      \* _System.Storage: own properties, key -> value
    stored,       \* outcome of the most recent StoreData / RetData call
    overloads,    \* Overloadable._overloads: own properties, key -> fn
    defined,      \* history: (name, paramTypes) -> fn of the last defineOverload
    dispatched,   \* outcome of the most recent defineOverload / callOverload
    evaluated,    \* outcome of the most recent constructor / TypedIf / toString / Concat call
    stdout,       \* what console.log has been handed so far, in order
    printCalled,  \* the printCalled notifications emitted so far, in order
    printed,      \* outcome of the most recent Print call
    genericList,  \* a GenericList instance: its expected type and its _items
    added,        \* history: how many add calls on genericList returned normally
    arrays,       \* the SaladArray objects alive, each with its backing _items array
    saladObject,  \* one SaladObject: its backing object and the outcome of the last call on it
    listeners,    \* EventEmitter._listeners: event name -> listeners, in registration order
    invocations   \* the most recent emit: the invocations it made, in order, and how it ended

vars == <<Packages, calls, emitted, fetched, Storage, stored,
          overloads, defined, dispatched, evaluated, stdout, printCalled, printed,
          genericList, added, arrays, saladObject, listeners, invocations>>

registryVars == <<Packages, calls, emitted, fetched>>
storageVars  == <<Storage, stored>>
overloadVars == <<overloads, defined, dispatched>>
valueVars    == <<evaluated>>
printVars    == <<stdout, printCalled, printed>>
listVars     == <<genericList, added>>
arrayVars    == <<arrays>>
objectVars   == <<saladObject>>
emitterVars  == <<listeners, invocations>>

(***************************************************************************)
(* Bounds of the model.                                                    *)
(***************************************************************************)
MaxCalls == 3        \* UsePackage calls issued in one behaviour
MaxOverloads == 2    \* distinct signatures defined in one behaviour

(***************************************************************************)
(* Package registry: _System.UsePackage and the package accessors.         *)
(***************************************************************************)

\* `null`, the initial value of an entry's instance; live instances are 1, 2, ...
Null == 0

\* The named exports of the repository's modules; a path outside the domain
\* does not resolve and the dynamic import rejects.
Modules ==
    [p \in {"./SaladMath.mjs", "./SaladLinq.mjs", "./Packages/SaladDOM.mjs"} |->
        CASE p = "./SaladMath.mjs" -> {"ImagInt", "Vector", "SaladMath"}
          [] p = "./SaladLinq.mjs" -> {"SaladLinq", "SaladLinqPackage"}
          [] OTHER -> {"SaladElement", "SaladDOMPackage", "SaladFiles",
                       "SaladFilesPackage"}]

\* Exports whose constructor throws when called with no arguments
\* (ImagInt requires two Int-tagged parts).
CtorThrows == {"ImagInt"}

\* The packages that have an accessor on System.
AccessorNames == {"SaladMath", "SaladLinq", "SaladDOM"}

\* The UsePackage(packageName, packagePath, exportName) argument lists issued;
\* exportName defaults to packageName when omitted (line 973).
DefaultExport(packageName) == packageName

Requests ==
    { [name |-> "SaladMath", path |-> "./SaladMath.mjs",
       exportName |-> DefaultExport("SaladMath")],
      [name |-> "SaladMath", path |-> "./SaladMath.mjs", exportName |-> "Vector"],
      [name |-> "SaladMath", path |-> "./SaladMath.mjs", exportName |-> "ImagInt"],
      [name |-> "SaladMath", path |-> "./Missing.mjs",
       exportName |-> DefaultExport("SaladMath")],
      [name |-> "SaladDOM", path |-> "./Packages/SaladDOM.mjs",
       exportName |-> DefaultExport("SaladDOM")],
      [name |-> "SaladDOM", path |-> "./Packages/SaladDOM.mjs",
       exportName |-> "SaladDOMPackage"] }

\* Lines 974-976: the entry is created when absent.
EnsureEntryAlways(P, name) ==
    [n \in DOMAIN P \cup {name} |->
        IF n = name THEN [enabled |-> FALSE, instance |-> Null] ELSE P[n]]
EnsureEntry(P, name) ==
    IF name \in DOMAIN P
    THEN P
    ELSE [n \in DOMAIN P \cup {name} |->
            IF n = name THEN [enabled |-> FALSE, instance |-> Null] ELSE P[n]]

\* Line 978: the enabled check, made before the import is awaited.
AlreadyEnabledNoCheck(P, name) == FALSE
AlreadyEnabled(P, name) == P[name].enabled

\* Lines 982-990 for a suspended call: what the resumption runs into.
ResumeOutcomeRechecked(c) ==
    IF c.path \notin DOMAIN Modules THEN "ImportError"
    ELSE IF c.exportName \notin Modules[c.path] THEN "ExportNotFound"
    ELSE IF Packages[c.name].enabled THEN "AlreadyEnabled"
    ELSE IF c.exportName \in CtorThrows THEN "CtorError"
    ELSE "ok"
ResumeOutcome(c) ==
    IF c.path \notin DOMAIN Modules THEN "ImportError"
    ELSE IF c.exportName \notin Modules[c.path] THEN "ExportNotFound"
    ELSE IF c.exportName \in CtorThrows THEN "CtorError"
    ELSE "ok"

\* The instances created so far; `new PkgClass()` yields a fresh object.
Instances == {calls[i].instance : i \in DOMAIN calls} \ {Null}
FreshInstance == Cardinality(Instances) + 1

\* The calls suspended on `await import(packagePath)`.
Suspended == {i \in DOMAIN calls : calls[i].pc = "import"}

\* The accessors `get SaladMath / SaladLinq / SaladDOM` (lines 1004-1038),
\* read in the registry P.
NotEnabled == -1
FetchFrom(P, name) ==
    IF name \notin DOMAIN P THEN NotEnabled
    ELSE IF ~P[name].enabled \/ P[name].instance = Null
         THEN NotEnabled
         ELSE P[name].instance
FetchEntryOnly(name) ==
    IF name \notin DOMAIN Packages THEN NotEnabled ELSE Packages[name].instance
Fetch(name) == FetchFrom(Packages, name)

(***************************************************************************)
(* EventEmitter: on and emit. System is an EventEmitter.                   *)
(***************************************************************************)

MaxListeners == 2    \* on calls made from outside a listener in one behaviour

\* What a listener does when invoked with (arg): nothing ("log"), register
\* a "log" listener for the event it was invoked for ("subscribe"), throw
\* ("throw"), or read the accessor of the package named arg ("fetch").
ListenerKinds == {"log", "subscribe", "throw", "fetch"}

\* on(eventName, listener), lines 71-76, on the _listeners object L.
On(L, eventName, listener) ==
    IF eventName \in DOMAIN L
    THEN [L EXCEPT ![eventName] = Append(@, listener)]
    ELSE [e \in DOMAIN L \cup {eventName} |->
             IF e = eventName THEN <<listener>> ELSE L[e]]

\* The number of listeners registered, over all events.
RECURSIVE CountListeners(_, _)
CountListeners(L, events) ==
    IF events = {} THEN 0
    ELSE LET e == CHOOSE x \in events : TRUE
         IN  Len(L[e]) + CountListeners(L, events \ {e})
TotalListeners(L) == CountListeners(L, DOMAIN L)

\* The state a running emit works on: _listeners, the invocations made by
\* this emit, whether a listener has thrown, and the last accessor read.
Run(L, made, status, read) ==
    [listeners |-> L, invocations |-> made, status |-> status, fetched |-> read]

\* Line 85: the array the loop iterates is the one that on pushes to, so
\* the loop reaches what is appended while it runs.
LoopEnd(run, eventName) == Len(run.listeners[eventName])

\* The loop of lines 85-87 from position i on; a throwing listener ends it.
\* P is the registry a "fetch" listener reads.
RECURSIVE RunListeners(_, _, _, _, _)
RunListeners(run, eventName, arg, P, i) ==
    IF run.status # "ok" \/ i > LoopEnd(run, eventName) THEN run
    ELSE LET l == run.listeners[eventName][i]
             logged == [run EXCEPT !.invocations =
                           Append(@, [listener |-> l, event |-> eventName,
                                      arg |-> arg])]
             after ==
                CASE l = "subscribe" ->
                        [logged EXCEPT !.listeners = On(@, eventName, "log")]
                  [] l = "throw" -> [logged EXCEPT !.status = "Error"]
                  [] l = "fetch" ->
                        [logged EXCEPT !.fetched =
                            [name |-> arg, result |-> FetchFrom(P, arg)]]
                  [] OTHER -> logged
         IN  RunListeners(after, eventName, arg, P, i + 1)

\* What is kept of a finished emit.
Emitted(run) == [made |-> run.invocations, status |-> run.status]

\* emit(eventName, arg), lines 83-89.
Emit(L, read, eventName, arg, P) ==
    IF eventName \in DOMAIN L
    THEN RunListeners(Run(L, <<>>, "ok", read), eventName, arg, P, 1)
    ELSE Run(L, <<>>, "ok", read)

\* UsePackage up to its first await (lines 973-982): the synchronous part runs
\* when the call is issued.
UsePackage(req) ==
    /\ Len(calls) < MaxCalls
    /\ LET P1 == EnsureEntry(Packages, req.name)
           c  == [name |-> req.name, path |-> req.path,
                  exportName |-> req.exportName,
                  instance |-> Null,
                  pendingAtStart |->
                      {i \in Suspended : calls[i].name = req.name}]
       IN  /\ Packages' = P1
           /\ IF AlreadyEnabled(P1, req.name)
              THEN calls' = Append(calls,
                       c @@ [pc |-> "done", awaited |-> FALSE,
                             result |-> "AlreadyEnabled"])
              ELSE calls' = Append(calls,
                       c @@ [pc |-> "import", awaited |-> TRUE,
                             result |-> "pending"])
    /\ UNCHANGED <<emitted, fetched, storageVars, overloadVars,
                 valueVars, printVars, listVars, arrayVars, objectVars, emitterVars>>

\* UsePackage from the resolution of the import to its end (lines 982-996).
UsePackageResume(i) ==
    /\ i \in Suspended
    /\ LET c == calls[i]
           outcome == ResumeOutcome(c)
           P1 == [Packages EXCEPT ![c.name] =
                     [enabled |-> TRUE, instance |-> FreshInstance]]
           run == Emit(listeners, fetched, "packageUsed", c.name, P1)
       IN  IF outcome = "ok"
           THEN /\ calls' = [calls EXCEPT
                               ![i].pc = "done",
                               ![i].result = IF run.status = "ok" THEN "ok"
                                             ELSE "ListenerError",
                               ![i].instance = FreshInstance]
                /\ Packages' = P1
                /\ emitted' = Append(emitted, c.name)
                /\ listeners' = run.listeners
                /\ invocations' = Emitted(run)
                /\ fetched' = run.fetched
           ELSE /\ calls' = [calls EXCEPT ![i].pc = "done", ![i].result = outcome]
                /\ UNCHANGED <<Packages, emitted, fetched, emitterVars>>
    /\ UNCHANGED <<storageVars, overloadVars,
                 valueVars, printVars, listVars, arrayVars, objectVars>>

Accessor(name) ==
    /\ fetched' = [name |-> name, result |-> Fetch(name)]
    /\ UNCHANGED <<Packages, calls, emitted, storageVars, overloadVars,
                 valueVars, printVars, listVars, arrayVars, objectVars, emitterVars>>

RegistryNext ==
    \/ \E req \in Requests : UsePackage(req)
    \/ \E i \in DOMAIN calls : UsePackageResume(i)
    \/ \E name \in AccessorNames : Accessor(name)

\* The events and listeners of an emitter used on its own.
EventNames == {"a", "b"}
PlainListeners == {"log", "subscribe", "throw"}
EventArgs == {"x", "y"}

\* emitter.on(eventName, listener), called from outside any listener.
on(eventName, listener) ==
    /\ TotalListeners(listeners) < MaxListeners
    /\ listeners' = On(listeners, eventName, listener)
    /\ UNCHANGED <<invocations, registryVars, storageVars, overloadVars, valueVars,
                   printVars, listVars, arrayVars, objectVars>>

\* emitter.emit(eventName, arg), with every listener it invokes run to its
\* end.
emit(eventName, arg) ==
    /\ TotalListeners(listeners) <= MaxListeners
    /\ LET run == Emit(listeners, fetched, eventName, arg, Packages)
       IN  /\ listeners' = run.listeners
           /\ invocations' = Emitted(run)
           /\ fetched' = run.fetched
    /\ UNCHANGED <<Packages, calls, emitted, storageVars, overloadVars, valueVars,
                   printVars, listVars, arrayVars, objectVars>>

EmitterNext ==
    \/ \E eventName \in EventNames, listener \in PlainListeners :
          on(eventName, listener)
    \/ \E eventName \in EventNames, arg \in EventArgs : emit(eventName, arg)

\* The registry with listeners of packageUsed: the registrations of one
\* package that succeed, fail in the constructor, fail in the import and
\* fail for a missing export.
NotifyRequests ==
    {req \in Requests :
        \/ req.name = "SaladMath" /\ req.exportName # "Vector"
        \/ req.name = "SaladDOM" /\ req.exportName = DefaultExport("SaladDOM")}

NotifyNext ==
    \/ \E listener \in {"fetch", "throw"} : on("packageUsed", listener)
    \/ \E req \in NotifyRequests : UsePackage(req)
    \/ \E i \in DOMAIN calls : UsePackageResume(i)
    \/ Accessor("SaladMath")

(***************************************************************************)
(* Host values and typed values.                                           *)
(***************************************************************************)

\* JavaScript values, by kind.
HUndefined   == [kind |-> "undefined", num |-> 0, str |-> ""]
HNumber(n)   == [kind |-> "number", num |-> n, str |-> ""]
HString(s)   == [kind |-> "string", num |-> 0, str |-> s]
HFunction(f) == [kind |-> "function", num |-> 0, str |-> f]

\* The `.type` of a value that has no such property.
NoType == "<undefined>"

\* A host value that is handed to the library as it is: `.type` is undefined
\* and `.valueOf()` is the value itself.
Untyped(h) == [type |-> NoType, raw |-> h]

\* The wrapper objects, by what their constructors store and valueOf() returns.
SaladString(s) == [type |-> "String", raw |-> HString(s)]
SaladInt(n)    == [type |-> "Int", raw |-> HNumber(n)]
SaladFloat(n)  == [type |-> "Float", raw |-> HNumber(n)]

\* `v == undefined` and the truthiness of `v`, for the values above: wrapper
\* objects and functions are truthy, 0 and undefined are falsy.
IsUndefined(v) == v.type = NoType /\ v.raw.kind = "undefined"
Truthy(v) ==
    \/ v.type # NoType
    \/ v.raw.kind = "function"
    \/ v.raw.kind = "number" /\ v.raw.num # 0
    \/ v.raw.kind = "string" /\ v.raw.str # ""

\* What every plain object `{}` inherits from Object.prototype.
ObjectPrototype ==
    [k \in {"constructor", "toString"} |->
        IF k = "constructor" THEN HFunction("Object") ELSE HFunction("toString")]

\* `obj[key]` on a plain object: the own property, else the inherited one,
\* else undefined.
Get(obj, key) ==
    IF key \in DOMAIN obj THEN obj[key]
    ELSE IF key \in DOMAIN ObjectPrototype THEN Untyped(ObjectPrototype[key])
    ELSE Untyped(HUndefined)

\* `obj[key] = value`.
Put(obj, key, value) ==
    [k \in DOMAIN obj \cup {key} |-> IF k = key THEN value ELSE obj[k]]

(***************************************************************************)
(* Host conversions and the wrapper constructors.                          *)
(***************************************************************************)

\* More host values. Numbers of the model are integers and NaN; an object is
\* a reference (num) of a class (str): "Array", "Date" or "Object". The num of
\* a Date object is its time value.
HNaN           == [kind |-> "number", num |-> 0, str |-> "NaN"]
HBoolean(b)    == [kind |-> "boolean", num |-> IF b THEN 1 ELSE 0, str |-> ""]
HObject(id, c) == [kind |-> "object", num |-> id, str |-> c]
HNull          == [kind |-> "null", num |-> 0, str |-> ""]

\* `x === y` on host values: by value for primitives, by reference for
\* objects, and never for NaN.
StrictEquals(x, y) == x = y /\ x # HNaN

\* Number.prototype.toString for the numbers of the model.
Digits == <<"0", "1", "2", "3", "4", "5", "6", "7", "8", "9">>
RECURSIVE NatToString(_)
NatToString(n) ==
    IF n < 10 THEN Digits[n + 1]
    ELSE NatToString(n \div 10) \o Digits[(n % 10) + 1]
NumberToString(h) ==
    IF h = HNaN THEN "NaN"
    ELSE IF h.num < 0 THEN "-" \o NatToString(-h.num)
    ELSE NatToString(h.num)

\* `${h}` for a primitive h.
TemplateString(h) ==
    CASE h.kind = "string" -> h.str
      [] h.kind = "number" -> NumberToString(h)
      [] h.kind = "boolean" -> IF h.num = 1 THEN "true" ELSE "false"
      [] h.kind = "null" -> "null"
      [] OTHER -> "undefined"

\* Number(h): the numerals of the model's numbers and "" convert, any other
\* string is NaN; a Date converts to its time value, any other object of the
\* model to NaN.
ParseNumber(str) ==
    IF str = "" THEN HNumber(0)
    ELSE IF \E n \in -9..99 : NumberToString(HNumber(n)) = str
         THEN HNumber(CHOOSE n \in -9..99 : NumberToString(HNumber(n)) = str)
         ELSE HNaN
ToNumber(h) ==
    CASE h.kind = "number" -> h
      [] h.kind = "string" -> ParseNumber(h.str)
      [] h.kind = "boolean" -> HNumber(h.num)
      [] h.kind = "object" /\ h.str = "Date" -> HNumber(h.num)
      [] h.kind = "null" -> HNumber(0)
      [] OTHER -> HNaN

\* !!h
ToBoolean(h) ==
    CASE h.kind \in {"undefined", "null"} -> FALSE
      [] h.kind = "number" -> h # HNaN /\ h.num # 0
      [] h.kind = "string" -> h.str # ""
      [] h.kind = "boolean" -> h.num = 1
      [] OTHER -> TRUE

\* The time value of `h instanceof Date ? h : new Date(h)`; the strings of
\* the model are none that Date.parse accepts.
ToTimeValue(h) ==
    CASE h.kind = "object" /\ h.str = "Date" -> HNumber(h.num)
      [] h.kind = "number" -> h
      [] h.kind \in {"boolean", "null"} -> HNumber(h.num)
      [] OTHER -> HNaN

\* What `new C(args)` ends in: the object built, or the error thrown.
BuiltUntagged(value) ==
    [status |-> "ok", line |-> 0, value |-> [type |-> NoType, raw |-> value.raw]]
Built(value) == [status |-> "ok", line |-> 0, value |-> value]
Thrown(error, line) ==
    [status |-> error, line |-> line, value |-> Untyped(HUndefined)]

\* typeof x == "string" || typeof x == "number" (lines 424, 493).
IsCoordinate(h) == h.kind = "string" \/ h.kind = "number"

\* The array `[]` of a defaulted SaladArray argument and the object `{}` of a
\* defaulted SaladObject argument.
DefaultItems == HObject(0, "Array")
DefaultObj == HObject(0, "Object")

\* The constructors, lines 342-351, 380-388, 422-440, 491-508, 562-566,
\* 595-599, 628-636, 692-696 and 760-767; args are the host values passed.
NewUnchecked(tag, args) ==
    Built([type |-> tag, raw |-> args[1]])
New(tag, args) ==
    CASE tag = "String" ->
            IF args[1].kind = "string"
            THEN Built(SaladString(args[1].str))
            ELSE Thrown("TypeError", 348)
      [] tag = "Int" ->
            IF args[1].kind = "number"
            THEN Built([type |-> "Int", raw |-> args[1]])
            ELSE Thrown("TypeError", 386)
      [] tag = "Vec2" ->
            IF IsCoordinate(args[1]) /\ IsCoordinate(args[2])
            THEN Built([type |-> "Vec2", raw |->
                     HString(TemplateString(args[1]) \o "," \o
                             TemplateString(args[2]))])
            ELSE Thrown("TypeError", 429)
      [] tag = "Vec3" ->
            IF IsCoordinate(args[1]) /\ IsCoordinate(args[2])
               /\ IsCoordinate(args[3])
            THEN Built([type |-> "Vec3", raw |->
                     HString(TemplateString(args[1]) \o "," \o
                             TemplateString(args[2]) \o "," \o
                             TemplateString(args[3]))])
            ELSE Thrown("TypeError", 499)
      [] tag = "Bool" ->
            Built([type |-> "Bool", raw |-> HBoolean(ToBoolean(args[1]))])
      [] tag = "Float" ->
            Built([type |-> "Float", raw |-> ToNumber(args[1])])
      [] tag = "Date" ->
            Built([type |-> "Date", raw |-> ToTimeValue(args[1])])
      [] tag = "Array" ->
            Built([type |-> "Array", raw |->
                     IF args[1].kind = "undefined" THEN DefaultItems
                     ELSE args[1]])
      [] OTHER ->  \* "Object"
            IF args[1].kind = "undefined"
            THEN Built([type |-> "Object", raw |-> DefaultObj])
            ELSE IF args[1].kind # "object" \/ args[1].str = "Array"
            THEN Thrown("TypeError", 763)
            ELSE Built([type |-> "Object", raw |-> args[1]])

(***************************************************************************)
(* Storage: _System.StoreData and _System.RetData.                         *)
(***************************************************************************)

Keys == {"k", "j", "constructor"}

Values ==
    { SaladString("a"), SaladString("b"), SaladInt(1), SaladFloat(1),
      Untyped(HNumber(0)), Untyped(HNumber(7)), Untyped(HUndefined) }

NoValue == Untyped(HUndefined)

Outcome(op, key, value, result, line, returned) ==
    [op |-> op, key |-> key, value |-> value, result |-> result,
     line |-> line, returned |-> returned]

\* Line 941: the stored value's type against the new value's type.
SameTypeAlways(existing, value) == TRUE
SameType(existing, value) == existing.type = value.type

\* StoreData(key, value), lines 935-950.
StoreData(key, value) ==
    /\ LET existing == Get(Storage, key)
       IN  IF IsUndefined(existing)
           THEN /\ Storage' = Put(Storage, key, value)
                /\ stored' = Outcome("StoreData", key, value, "ok", 938, HUndefined)
           ELSE IF existing.type # NoType
           THEN IF IsUndefined(value)
                THEN \* reading `value.type` of undefined throws
                     /\ stored' = Outcome("StoreData", key, value, "TypeError",
                                          941, HUndefined)
                     /\ UNCHANGED Storage
                ELSE IF SameType(existing, value)
                THEN /\ Storage' = Put(Storage, key, value)
                     /\ stored' = Outcome("StoreData", key, value, "ok", 942,
                                          HUndefined)
                ELSE /\ stored' = Outcome("StoreData", key, value, "TypeError",
                                          944, HUndefined)
                     /\ UNCHANGED Storage
           ELSE /\ stored' = Outcome("StoreData", key, value, "TypeError", 947,
                                     HUndefined)
                /\ UNCHANGED Storage
    /\ UNCHANGED <<registryVars, overloadVars,
                 valueVars, printVars, listVars, arrayVars, objectVars, emitterVars>>

\* What RetData(key) returns, lines 958-962.
RetDataResult(key) ==
    IF Truthy(Get(Storage, key)) THEN Get(Storage, key).raw ELSE HUndefined

RetData(key) ==
    /\ stored' = Outcome("RetData", key, NoValue, "ok", 960, RetDataResult(key))
    /\ UNCHANGED <<Storage, registryVars, overloadVars,
                 valueVars, printVars, listVars, arrayVars, objectVars, emitterVars>>

StorageNext ==
    \/ \E key \in Keys, value \in Values : StoreData(key, value)
    \/ \E key \in Keys : RetData(key)

(***************************************************************************)
(* Overloadable: defineOverload and callOverload.                          *)
(***************************************************************************)

OverloadNames == {"doSomething", "other"}

\* The paramTypes arrays handed to defineOverload.
ParamTypeLists ==
    { <<>>, <<"String">>, <<"Int">>, <<"number">>,
      <<"String", "Int">>, <<"String,Int">> }

\* The implementations registered; an implementation is identified by name
\* and what it returns is determined by it and the arguments it receives.
Fns == {"f1", "f2"}
NoFn == "<none>"

\* The argument lists handed to callOverload.
ArgLists ==
    { <<>>, <<SaladString("a")>>, <<SaladInt(1)>>, <<SaladFloat(1)>>,
      <<Untyped(HNumber(7))>>, <<Untyped(HUndefined)>>,
      <<SaladString("a"), SaladInt(1)>> }

\* Array.prototype.join on an array of strings.
RECURSIVE Join(_, _)
Join(arr, sep) ==
    IF Len(arr) = 0 THEN ""
    ELSE IF Len(arr) = 1 THEN arr[1]
    ELSE arr[1] \o sep \o Join(Tail(arr), sep)

\* Lines 123 and 137: the key of a signature in _overloads.
OverloadKey(name, types) == name \o ":" \o Join(types, ",")

\* Line 136: `a?.type ?? typeof a`.
ArgType(a) == IF a.type # NoType THEN a.type ELSE a.raw.kind
ArgTypes(args) == [i \in DOMAIN args |-> ArgType(args[i])]

Dispatch(op, name, types, args, invoked, result) ==
    [op |-> op, name |-> name, types |-> types, args |-> args,
     invoked |-> invoked, result |-> result]

\* defineOverload(name, paramTypes, fn), lines 122-125.
defineOverload(name, paramTypes, fn) ==
    /\ \/ <<name, paramTypes>> \in DOMAIN defined
       \/ Cardinality(DOMAIN defined) < MaxOverloads
    /\ overloads' = Put(overloads, OverloadKey(name, paramTypes), fn)
    /\ defined' = Put(defined, <<name, paramTypes>>, fn)
    /\ dispatched' = Dispatch("defineOverload", name, paramTypes, <<>>, fn, "ok")
    /\ UNCHANGED <<registryVars, storageVars,
                 valueVars, printVars, listVars, arrayVars, objectVars, emitterVars>>

\* callOverload(name, ...args), lines 135-144.
callOverload(name, args) ==
    /\ LET key == OverloadKey(name, ArgTypes(args))
       IN  IF key \in DOMAIN overloads
           THEN dispatched' = Dispatch("callOverload", name, ArgTypes(args), args,
                                       overloads[key], "ok")
           ELSE dispatched' = Dispatch("callOverload", name, ArgTypes(args), args,
                                       NoFn, "Error")
    /\ UNCHANGED <<overloads, defined, registryVars, storageVars,
                 valueVars, printVars, listVars, arrayVars, objectVars, emitterVars>>

OverloadNext ==
    \/ \E name \in OverloadNames, paramTypes \in ParamTypeLists, fn \in Fns :
          defineOverload(name, paramTypes, fn)
    \/ \E name \in OverloadNames, args \in ArgLists : callOverload(name, args)

(***************************************************************************)
(* Pure operations on values: constructors, TypedIf, toString, Concat.     *)
(***************************************************************************)

\* The record of one call: the operation, the wrapper class it concerns (if
\* any), its arguments, the callbacks handed in, how it ended (status, and
\* the line of the throw), what it returned and the callbacks it invoked.
Eval(op, tag, args, callbacks, status, line, result, invoked) ==
    [op |-> op, tag |-> tag, args |-> args, callbacks |-> callbacks,
     status |-> status, line |-> line, result |-> result, invoked |-> invoked]

\* The values handed to TypedIf and Concat: wrapper objects as their
\* constructors build them, two distinct SaladArray objects over distinct
\* arrays, and untyped host values.
Operands ==
    { New("String", <<HString("a")>>).value,
      New("String", <<HString("1")>>).value,
      New("Int", <<HNumber(1)>>).value,
      New("Int", <<HNumber(2)>>).value,
      New("Int", <<HNaN>>).value,
      New("Float", <<HNumber(1)>>).value,
      New("Float", <<HString("a")>>).value,
      New("Bool", <<HBoolean(TRUE)>>).value,
      New("Vec2", <<HNumber(1), HNumber(2)>>).value,
      New("Vec2", <<HString("2"), HString("1")>>).value,
      New("Array", <<HObject(1, "Array")>>).value,
      New("Array", <<HObject(2, "Array")>>).value,
      Untyped(HNumber(1)),
      Untyped(HUndefined) }

\* A callback argument: a function, or omitted.
Callbacks(name) == {HFunction(name), HUndefined}

\* Line 829: the tags of the two operands differ.
TypesDifferNever(expr1, expr2) == FALSE
TypesDiffer(expr1, expr2) == expr1.type # expr2.type

\* TypedIf(expr1, expr2, onEqual, onNotEqual), lines 818-841.
TypedIfResult(expr1, expr2, onEqual, onNotEqual) ==
    LET done(status, line, invoked) ==
            Eval("TypedIf", "", <<expr1, expr2>>, <<onEqual, onNotEqual>>,
                 status, line, Untyped(HUndefined), invoked)
    IN  IF expr1.type = NoType THEN done("TypeError", 820, <<>>)
        ELSE IF expr2.type = NoType THEN done("TypeError", 825, <<>>)
        ELSE IF TypesDiffer(expr1, expr2) THEN done("TypeError", 830, <<>>)
        ELSE IF StrictEquals(expr1.raw, expr2.raw)
        THEN IF onEqual.kind = "function"
             THEN done("ok", 836, <<"onEqual">>)
             ELSE done("ok", 835, <<>>)
        ELSE IF onNotEqual.kind = "function"
             THEN done("ok", 839, <<"onNotEqual">>)
             ELSE done("ok", 838, <<>>)

TypedIf(expr1, expr2, onEqual, onNotEqual) ==
    /\ evaluated' = TypedIfResult(expr1, expr2, onEqual, onNotEqual)
    /\ UNCHANGED <<registryVars, storageVars, overloadVars,
                   printVars, listVars, arrayVars, objectVars, emitterVars>>

\* The wrapper classes and the host values handed to their constructors.
\* Every argument list has three places; a constructor reads as many as it
\* has parameters and a place left out is undefined.
Tags == {"String", "Int", "Float", "Bool", "Date", "Vec2", "Vec3", "Array", "Object"}
RawValues ==
    { HUndefined, HNull, HString("a"), HString("1"), HNumber(1), HNumber(2), HNaN,
      HBoolean(TRUE), HBoolean(FALSE),
      HObject(1, "Array"), HObject(2, "Object"), HObject(5, "Date") }
Coordinates == {HNumber(1), HNumber(2), HString("1"), HBoolean(TRUE)}
Arity(tag) == CASE tag = "Vec2" -> 2 [] tag = "Vec3" -> 3 [] OTHER -> 1
ArgumentLists(tag) ==
    CASE tag = "Vec2" -> {<<x, y, HUndefined>> : x \in Coordinates, y \in Coordinates}
      [] tag = "Vec3" -> {<<x, y, z>> : x \in Coordinates, y \in Coordinates,
                                          z \in {HNumber(1), HString("1"), HUndefined}}
      [] OTHER -> {<<v, HUndefined, HUndefined>> : v \in RawValues}

\* new Salad<tag>(...args): the object built, or the error thrown.
Constructor(tag, args) ==
    /\ LET made == New(tag, args)
       IN  evaluated' = Eval("new", tag, args, <<>>,
                             made.status, made.line, made.value, <<>>)
    /\ UNCHANGED <<registryVars, storageVars, overloadVars,
                   printVars, listVars, arrayVars, objectVars, emitterVars>>

\* The objects toString() is called on, each written as its class and the
\* arguments it was built from: every wrapper object a constructor above
\* builds, ImagInt and Vector objects of the SaladMath module (a Vector of
\* direction 0), and generic lists of strings.
Receivers ==
    UNION { {[tag |-> tag, args |-> args] :
                args \in {a \in ArgumentLists(tag) : New(tag, a).status = "ok"}} :
            tag \in Tags }
    \cup {[tag |-> "ImagInt", args |-> <<SaladInt(r), SaladInt(i)>>] :
             r \in {1, 2}, i \in {0, 2}}
    \cup {[tag |-> "Vector", args |-> <<HNumber(m), HNumber(0)>>] : m \in {1, 2}}
    \cup {[tag |-> "GenericList", args |-> elements] :
             elements \in {<<>>, <<SaladString("a")>>,
                           <<SaladString("a"), SaladString("b")>>}}

\* The elements of the arrays of the model: array 1 holds two wrapper
\* objects, any other array is empty.
ArrayElements(ref) ==
    IF ref.num = 1 THEN <<SaladString("a"), [type |-> "Int", raw |-> HNumber(1)]>>
    ELSE <<>>

\* The text of a wrapper object inside Array.prototype.join: its toString()
\* returns an object, so the host falls back to valueOf().
ElementText(el) == TemplateString(el.raw)

\* Date.prototype.toISOString for the time values of the model (0..9 ms).
ToISOString(ms) == "1970-01-01T00:00:00.00" \o NatToString(ms) \o "Z"

\* Number.prototype.toFixed(2) for the integers of the model.
ToFixed2(h) == NumberToString(h) \o ".00"

\* toString() of each class: TypeSalad.mjs lines 358, 395, 467, 536, 573,
\* 606, 643, 737, 792 and 310; SaladMath.mjs lines 25-31 and 63-68. The
\* result is a SaladString object, or a host string written as an untyped
\* value.
ToStringResult(tag, args) ==
    LET this == New(tag, args).value
        texts(items) == [i \in 1..Len(items) |-> ElementText(items[i])]
    IN  CASE tag = "String" -> Built(SaladString(this.raw.str))
          [] tag \in {"Int", "Float", "Bool"} ->
                Built(SaladString(TemplateString(this.raw)))
          [] tag = "Vec2" ->
                Built(SaladString(TemplateString(args[1]) \o ", " \o
                                  TemplateString(args[2])))
          [] tag = "Vec3" ->
                Built(SaladString(TemplateString(args[1]) \o ", " \o
                                  TemplateString(args[2]) \o ", " \o
                                  TemplateString(args[3])))
          [] tag = "Date" ->
                IF this.raw = HNaN THEN Thrown("RangeError", 643)
                ELSE Built(SaladString(ToISOString(this.raw.num)))
          [] tag = "Array" ->
                IF this.raw.kind = "object" /\ this.raw.str = "Array"
                THEN Built(SaladString("[" \o Join(texts(ArrayElements(this.raw)), ", ")
                                       \o "]"))
                ELSE Thrown("TypeError", 737)
          [] tag = "Object" ->
                IF this.raw.str = "Date"
                THEN Built(SaladString("\"" \o ToISOString(this.raw.num) \o "\""))
                ELSE Built(SaladString("{}"))
          [] tag = "GenericList" ->
                Built(SaladString("[GenericList of String] [" \o
                                  Join(texts(args), ", ") \o "]"))
          [] tag = "ImagInt" ->
                Built(Untyped(HString(
                    TemplateString(args[1].raw) \o " " \o
                    (IF args[2].raw.num >= 0 THEN "+" ELSE "-") \o " " \o
                    TemplateString(args[2].raw) \o "i")))
          [] OTHER ->  \* "Vector"
                Built(Untyped(HString(
                    "Vector(mag=" \o ToFixed2(args[1]) \o ", dir=" \o
                    ToFixed2(args[2]) \o "°)")))

\* receiver.toString()
toString(receiver) ==
    /\ LET out == ToStringResult(receiver.tag, receiver.args)
       IN  evaluated' = Eval("toString", receiver.tag, receiver.args, <<>>,
                             out.status, out.line, out.value, <<>>)
    /\ UNCHANGED <<registryVars, storageVars, overloadVars,
                   printVars, listVars, arrayVars, objectVars, emitterVars>>

\* Line 904: expr1.type === "String" || expr1.type === "Int".
ConcatenableAny(type) == TRUE
Concatenable(type) == type \in {"String", "Int"}

\* System.Concat(expr1, expr2), lines 900-926. Reading .type of undefined
\* is the host's TypeError, at the line that reads it.
ConcatResult(expr1, expr2) ==
    IF IsUndefined(expr1) THEN Thrown("TypeError", 901)
    ELSE IF expr1.type = NoType THEN Thrown("TypeError", 922)
    ELSE IF IsUndefined(expr2) THEN Thrown("TypeError", 902)
    ELSE IF expr2.type = NoType THEN Thrown("TypeError", 917)
    ELSE IF expr1.type # expr2.type THEN Thrown("TypeError", 912)
    ELSE IF ~Concatenable(expr1.type) THEN Thrown("TypeError", 907)
    ELSE Built(SaladString(TemplateString(expr1.raw) \o TemplateString(expr2.raw)))

Concat(expr1, expr2) ==
    /\ LET out == ConcatResult(expr1, expr2)
       IN  evaluated' = Eval("Concat", "", <<expr1, expr2>>, <<>>,
                             out.status, out.line, out.value, <<>>)
    /\ UNCHANGED <<registryVars, storageVars, overloadVars,
                   printVars, listVars, arrayVars, objectVars, emitterVars>>

\* The coordinates of the vectors compared: numbers, their numerals, and
\* strings that contain a comma.
VectorCoordinates ==
    { HNumber(1), HNumber(2), HString("1"), HString("1,1") }
VectorArguments(tag) ==
    IF tag = "Vec2"
    THEN {<<x, y, HUndefined>> : x \in VectorCoordinates, y \in VectorCoordinates}
    ELSE {<<x, y, z>> : x \in {HNumber(1), HString("1"), HString("1,1")},
                        y \in {HNumber(1), HString("1"), HString("1,1")},
                        z \in {HNumber(1), HString("1")}}

\* TypedIf(new SaladVec2(...args1), new SaladVec2(...args2), onEqual,
\* onNotEqual), and the same for SaladVec3: the constructors of lines
\* 422-440 and 491-508, then TypedIf.
TypedIfVectors(tag, args1, args2) ==
    /\ LET out == TypedIfResult(New(tag, args1).value, New(tag, args2).value,
                                HFunction("onEqual"), HFunction("onNotEqual"))
       IN  evaluated' = Eval("TypedIfVectors", tag, <<args1, args2>>, out.callbacks,
                             out.status, out.line, out.result, out.invoked)
    /\ UNCHANGED <<registryVars, storageVars, overloadVars, printVars,
                   listVars, arrayVars, objectVars, emitterVars>>

VectorNext ==
    \E tag \in {"Vec2", "Vec3"} :
       \E args1 \in VectorArguments(tag), args2 \in VectorArguments(tag) :
          TypedIfVectors(tag, args1, args2)

CompareNext ==
    \E expr1 \in Operands, expr2 \in Operands,
       onEqual \in Callbacks("onEqual"), onNotEqual \in Callbacks("onNotEqual") :
       TypedIf(expr1, expr2, onEqual, onNotEqual)

ConstructNext ==
    \/ \E tag \in Tags : \E args \in ArgumentLists(tag) : Constructor(tag, args)
    \/ \E receiver \in Receivers : toString(receiver)

ConcatNext ==
    \E expr1 \in Operands, expr2 \in Operands : Concat(expr1, expr2)

ValueNext == CompareNext \/ ConstructNext \/ ConcatNext \/ VectorNext

(***************************************************************************)
(* createGenericList: one list object.                                     *)
(***************************************************************************)

MaxItems == 3

\* The class names handed to createGenericList and the items handed to the
\* constructor and to add.
ExpectedTypeNames == {"String", "Int"}
ListItems ==
    { SaladString("a"), SaladString("b"), SaladString("c"),
      SaladInt(1), SaladInt(2), SaladInt(3),
      Untyped(HNumber(1)), Untyped(HUndefined) }
ElementLists ==
    {<<>>} \cup {<<a>> : a \in ListItems}
           \cup {<<a, b>> : a \in {SaladString("a"), SaladInt(1)}, b \in ListItems}

\* The list object: whether the constructor has returned it, its
\* _expectedType and _items, and how the last constructor or add call ended.
List(constructed, expectedType, items, status, line) ==
    [constructed |-> constructed, expectedType |-> expectedType,
     items |-> items, status |-> status, line |-> line]

\* Line 289: item?.type !== this._expectedType.
RejectedNever(list, item) == FALSE
Rejected(list, item) == item.type # list.expectedType

\* add(item), lines 288-295, on the list object.
AddItem(list, item) ==
    IF Rejected(list, item)
    THEN [list EXCEPT !.status = "TypeError", !.line = 290]
    ELSE [list EXCEPT !.items = Append(@, item), !.status = "ok", !.line = 0]

\* The loop of lines 278-280: add each element until one throws.
RECURSIVE AddAll(_, _)
AddAll(list, elements) ==
    IF elements = <<>> \/ list.status # "ok" THEN list
    ELSE AddAll(AddItem(list, Head(elements)), Tail(elements))

\* new (createGenericList(expectedTypeName))(...elements), lines 274-281:
\* the object is returned only when no add has thrown.
GenericList(expectedTypeName, elements) ==
    /\ ~genericList.constructed
    /\ LET built == AddAll(List(TRUE, expectedTypeName, <<>>, "ok", 0), elements)
       IN  IF built.status = "ok"
           THEN /\ genericList' = built
                /\ added' = Len(built.items)
           ELSE /\ genericList' = List(FALSE, "", <<>>, built.status, built.line)
                /\ added' = 0
    /\ UNCHANGED <<registryVars, storageVars, overloadVars,
                   valueVars, printVars, arrayVars, objectVars, emitterVars>>

\* list.add(item), lines 288-295.
add(item) ==
    /\ genericList.constructed
    /\ Len(genericList.items) < MaxItems
    /\ genericList' = AddItem(genericList, item)
    /\ added' = IF genericList'.status = "ok" THEN added + 1 ELSE added
    /\ UNCHANGED <<registryVars, storageVars, overloadVars,
                   valueVars, printVars, arrayVars, objectVars, emitterVars>>

ListNext ==
    \/ \E expectedTypeName \in ExpectedTypeNames, elements \in ElementLists :
          GenericList(expectedTypeName, elements)
    \/ \E item \in ListItems : add(item)

(***************************************************************************)
(* System.Print.                                                           *)
(***************************************************************************)

MaxPrints == 4

\* How a Print call ended: the value it was given, and the error thrown.
PrintOutcome(value, status, line) ==
    [value |-> value, status |-> status, line |-> line]

\* Line 881: value.type === 'String'.
PrintableAny(value) == TRUE
Printable(value) == value.type = "String"

\* System.Print(value), lines 880-889: console.log is handed the object
\* value.toString() returns, then printCalled is emitted with value. Reading
\* .type of undefined is the host's TypeError.
SystemPrint(value) ==
    /\ Len(stdout) < MaxPrints
    /\ IF IsUndefined(value)
       THEN /\ printed' = PrintOutcome(value, "TypeError", 881)
            /\ UNCHANGED <<stdout, printCalled>>
       ELSE IF Printable(value)
       THEN /\ stdout' = Append(stdout, SaladString(TemplateString(value.raw)))
            /\ printCalled' = Append(printCalled, value)
            /\ printed' = PrintOutcome(value, "ok", 0)
       ELSE /\ printed' = PrintOutcome(value, "TypeError", 885)
            /\ UNCHANGED <<stdout, printCalled>>
    /\ UNCHANGED <<registryVars, storageVars, overloadVars,
                   valueVars, listVars, arrayVars, objectVars, emitterVars>>

PrintNext == \E value \in Operands : SystemPrint(value)

(***************************************************************************)
(* SaladArray: objects over host arrays.                                   *)
(***************************************************************************)

MaxArrays == 2
MaxLength == 2

\* The items pushed, and the indices handed to slice; an index of MaxLength
\* or more reads as the end of the array.
ArrayItems == {SaladInt(1), SaladInt(2)}
Indices == -1..MaxLength

\* The host arrays by address (heap), the address each SaladArray object
\* holds in _items (refs), and what the last pop returned.
ArrayState(heap, refs, returned) ==
    [heap |-> heap, refs |-> refs, returned |-> returned]
Contents(state, k) == state.heap[state.refs[k]]

\* Array.prototype.slice(start, end): a negative index counts from the end,
\* both are clamped to 0..length, and an empty range gives [].
Clamp(index, length) ==
    IF index < 0
    THEN (IF length + index < 0 THEN 0 ELSE length + index)
    ELSE (IF index > length THEN length ELSE index)
Slice(items, start, end) ==
    LET k == Clamp(start, Len(items))
        final == Clamp(end, Len(items))
    IN  IF final > k THEN [n \in 1..(final - k) |-> items[k + n]] ELSE <<>>

\* The address of the array Array.prototype.slice returns: a new one.
SliceAddressShared(state, address) == address
SliceAddress(state, address) == Len(state.heap) + 1

\* array.push(item), lines 702-704.
push(k, item) ==
    /\ k \in 1..Len(arrays.refs)
    /\ Len(Contents(arrays, k)) < MaxLength
    /\ arrays' = [arrays EXCEPT !.heap[arrays.refs[k]] = Append(@, item),
                                !.returned = Untyped(HUndefined)]
    /\ UNCHANGED <<registryVars, storageVars, overloadVars,
                   valueVars, printVars, listVars,
                   objectVars, emitterVars>>

\* array.pop(), lines 710-712: the last item, or undefined when empty.
pop(k) ==
    /\ k \in 1..Len(arrays.refs)
    /\ LET items == Contents(arrays, k)
       IN  arrays' =
             IF items = <<>>
             THEN [arrays EXCEPT !.returned = Untyped(HUndefined)]
             ELSE [arrays EXCEPT
                     !.heap[arrays.refs[k]] = SubSeq(items, 1, Len(items) - 1),
                     !.returned = items[Len(items)]]
    /\ UNCHANGED <<registryVars, storageVars, overloadVars,
                   valueVars, printVars, listVars,
                   objectVars, emitterVars>>

\* array.slice(start, end), lines 728-730: a new SaladArray over the array
\* that this._items.slice returns.
slice(k, start, end) ==
    /\ k \in 1..Len(arrays.refs)
    /\ Len(arrays.refs) < MaxArrays
    /\ LET address == SliceAddress(arrays, arrays.refs[k])
           copy == Slice(Contents(arrays, k), start, end)
           size == IF address > Len(arrays.heap) THEN address ELSE Len(arrays.heap)
       IN  arrays' =
             ArrayState([a \in 1..size |-> IF a = address THEN copy ELSE arrays.heap[a]],
                        Append(arrays.refs, address),
                        Untyped(HUndefined))
    /\ UNCHANGED <<registryVars, storageVars, overloadVars,
                   valueVars, printVars, listVars,
                   objectVars, emitterVars>>

ArrayNext ==
    \/ \E k \in 1..MaxArrays, item \in ArrayItems : push(k, item)
    \/ \E k \in 1..MaxArrays : pop(k)
    \/ \E k \in 1..MaxArrays, start \in Indices, end \in Indices : slice(k, start, end)

(***************************************************************************)
(* SaladObject: get and set over a backing object.                         *)
(***************************************************************************)

\* The values handed to `new SaladObject(obj)`: nothing, null, primitives,
\* an array, and two plain objects ({} and {k: 1}).
BackingData ==
    { HUndefined, HNull, HNumber(1), HString("a"), HObject(1, "Array"),
      HObject(2, "Object"), HObject(3, "Object") }
OwnProperties(obj) ==
    IF obj = HObject(3, "Object")
    THEN [key \in {"k"} |-> Untyped(HNumber(1))]
    ELSE <<>>

\* The keys and values handed to get and set; a value may be a wrapper
\* object.
ObjectKeys == {"k", "j", "type", "__proto__"}
ObjectValues == {Untyped(HNumber(1)), Untyped(HNumber(2)), SaladString("a")}

\* Object.prototype as a value, the prototype of every plain object.
ObjectPrototypeRef == Untyped(HObject(0, "Object.prototype"))

\* The SaladObject and the object it holds in _obj: the own properties and
\* the prototype of the backing object, and how the last call ended.
ObjectState(constructed, own, proto, status, line, returned) ==
    [constructed |-> constructed, own |-> own, proto |-> proto,
     status |-> status, line |-> line, returned |-> returned]

\* `obj[key]`: an own property; else the prototype for "__proto__"; else
\* what the prototype has (a wrapper object has "type").
GetProperty(o, key) ==
    IF key \in DOMAIN o.own THEN o.own[key]
    ELSE IF key = "__proto__" THEN o.proto
    ELSE IF o.proto = ObjectPrototypeRef THEN Get(<<>>, key)
    ELSE IF key = "type" THEN Untyped(HString(o.proto.type))
    ELSE Untyped(HUndefined)

\* `obj[key] = value`: "__proto__" is the accessor of Object.prototype, which
\* replaces the prototype by an object and ignores any other value; every
\* other key becomes an own property.
SetProperty(o, key, value) ==
    IF key = "__proto__"
    THEN IF value.type # NoType \/ value.raw.kind = "object"
         THEN [o EXCEPT !.proto = value]
         ELSE o
    ELSE [o EXCEPT !.own = Put(@, key, value)]

\* new SaladObject(obj), lines 760-767.
NewSaladObject(obj) ==
    /\ ~saladObject.constructed
    /\ LET made == New("Object", <<obj, HUndefined, HUndefined>>)
       IN  saladObject' =
             IF made.status = "ok"
             THEN ObjectState(TRUE, OwnProperties(obj), ObjectPrototypeRef,
                              "ok", 0, Untyped(HUndefined))
             ELSE ObjectState(FALSE, <<>>, ObjectPrototypeRef,
                              made.status, made.line, Untyped(HUndefined))
    /\ UNCHANGED <<registryVars, storageVars, overloadVars, valueVars,
                   printVars, listVars, arrayVars, emitterVars>>

\* object.get(key), lines 774-776.
get(key) ==
    /\ saladObject.constructed
    /\ saladObject' = [saladObject EXCEPT !.returned = GetProperty(saladObject, key)]
    /\ UNCHANGED <<registryVars, storageVars, overloadVars, valueVars,
                   printVars, listVars, arrayVars, emitterVars>>

\* object.set(key, value), lines 783-785.
set(key, value) ==
    /\ saladObject.constructed
    /\ saladObject' = [SetProperty(saladObject, key, value)
                          EXCEPT !.returned = Untyped(HUndefined)]
    /\ UNCHANGED <<registryVars, storageVars, overloadVars, valueVars,
                   printVars, listVars, arrayVars, emitterVars>>

ObjectNext ==
    \/ \E obj \in BackingData : NewSaladObject(obj)
    \/ \E key \in ObjectKeys : get(key)
    \/ \E key \in ObjectKeys, value \in ObjectValues : set(key, value)

(***************************************************************************)
(* SaladFiles.readJSON: the conversion of the parsed value.                *)
(***************************************************************************)

\* Values as JSON.parse gives them, and what the conversion builds: a kind
\* and what it holds (a string, a number, a sequence of values, a function
\* from keys to values, the value a promise resolves to).
Json(kind, val) == [kind |-> kind, val |-> val]
JsonPrimitives ==
    { Json("string", "a"), Json("string", "b"), Json("number", 1),
      Json("boolean", TRUE), Json("boolean", FALSE), Json("null", 0) }
JsonArrays(elements) ==
    {Json("array", <<>>)} \cup {Json("array", <<x>>) : x \in elements}
JsonObjects(values) ==
    {Json("object", <<>>)}
    \cup {Json("object", [key \in {"k"} |-> x]) : x \in values}
    \cup {Json("object", [key \in {"k", "j"} |-> IF key = "k" THEN x ELSE y]) :
             x \in values, y \in {Json("string", "a"), Json("number", 1)}}
JsonNested == JsonArrays(JsonPrimitives) \cup JsonObjects(JsonPrimitives)
JsonValues ==
    JsonPrimitives \cup JsonNested \cup JsonArrays(JsonNested)
    \cup {Json("array", <<x, y>>) : x \in JsonPrimitives, y \in JsonPrimitives}
    \cup {Json("object", [key \in {"k"} |-> x]) : x \in JsonNested}

\* The promise an async function call returns, by the value it resolves to.
Promise(value) == Json("Promise", value)

\* _convertToTyped(value), lines 362-386: an async function, so every call
\* returns a promise; the calls made for elements and property values are
\* not awaited (lines 365 and 373), their promises are what is stored.
RECURSIVE ConvertToTyped(_)
ConvertToTyped(value) ==
    Promise(
        CASE value.kind = "array" ->
                Json("SaladArray",
                     [i \in 1..Len(value.val) |-> ConvertToTyped(value.val[i])])
          [] value.kind = "object" ->
                Json("SaladObject",
                     [key \in DOMAIN value.val |-> ConvertToTyped(value.val[key])])
          [] value.kind = "string" -> Json("SaladString", value.val)
          [] OTHER -> value)

\* `await p`: the value the promise resolves to.
Await(p) == p.val

\* readJSON(fileName), lines 333-342, for a file whose text parses to
\* `parsed`: an async function returning the promise of _convertToTyped, so
\* its caller awaits the converted value.
readJSON(parsed) ==
    /\ evaluated' = Eval("readJSON", "", <<parsed>>, <<>>, "ok", 0,
                         Await(ConvertToTyped(parsed)), <<>>)
    /\ UNCHANGED <<registryVars, storageVars, overloadVars, printVars,
                   listVars, arrayVars, objectVars, emitterVars>>

JsonNext == \E parsed \in JsonValues : readJSON(parsed)

(***************************************************************************)
(* Initial state: the freshly constructed singleton (lines 858-873) and a  *)
(* freshly constructed Overloadable (lines 106-113).                       *)
(***************************************************************************)
Init ==
    /\ Packages = <<>>
    /\ calls = <<>>
    /\ emitted = <<>>
    /\ fetched = [name |-> "", result |-> NotEnabled]
    /\ Storage = <<>>
    /\ stored = Outcome("none", "", NoValue, "ok", 0, HUndefined)
    /\ overloads = <<>>
    /\ defined = <<>>
    /\ dispatched = Dispatch("none", "", <<>>, <<>>, NoFn, "ok")
    /\ evaluated = Eval("none", "", <<>>, <<>>, "ok", 0, Untyped(HUndefined), <<>>)
    /\ stdout = <<>>
    /\ printCalled = <<>>
    /\ printed = PrintOutcome(Untyped(HUndefined), "ok", 0)
    /\ genericList = List(FALSE, "", <<>>, "ok", 0)
    /\ added = 0
    /\ arrays = ArrayState(<< <<>> >>, <<1>>, Untyped(HUndefined))
    /\ saladObject = ObjectState(FALSE, <<>>, ObjectPrototypeRef, "ok", 0, Untyped(HUndefined))
    /\ listeners = <<>>
    /\ invocations = [made |-> <<>>, status |-> "ok"]

Next == RegistryNext \/ StorageNext \/ OverloadNext \/ ValueNext
        \/ ListNext \/ PrintNext \/ ArrayNext
        \/ ObjectNext \/ EmitterNext \/ NotifyNext
        \/ JsonNext

Spec == Init /\ [][Next]_vars
SpecRegistry == Init /\ [][RegistryNext]_vars
SpecStorage == Init /\ [][StorageNext]_vars
SpecOverload == Init /\ [][OverloadNext]_vars
SpecCompare == Init /\ [][CompareNext]_vars
SpecConstruct == Init /\ [][ConstructNext]_vars
SpecConcat == Init /\ [][ConcatNext]_vars
SpecVector == Init /\ [][VectorNext]_vars
SpecList == Init /\ [][ListNext]_vars
SpecPrint == Init /\ [][PrintNext]_vars
SpecArray == Init /\ [][ArrayNext]_vars
SpecObject == Init /\ [][ObjectNext]_vars
SpecEmitter == Init /\ [][EmitterNext]_vars
SpecNotify == Init /\ [][NotifyNext]_vars
SpecJson == Init /\ [][JsonNext]_vars
(***************************************************************************)
(* Package registry: properties.                                           *)
(***************************************************************************)

\* The calls for `name` that ran to the end of UsePackage.
Succeeded(name) ==
    {i \in DOMAIN calls : calls[i].name = name /\ calls[i].result = "ok"}

\* How many packageUsed notifications carried `name`.
EmittedFor(name) ==
    Cardinality({k \in DOMAIN emitted : emitted[k] = name})

\* The call's module resolves, exposes the export and the export constructs.
Loadable(c) ==
    /\ c.path \in DOMAIN Modules
    /\ c.exportName \in Modules[c.path]
    /\ c.exportName \notin CtorThrows

\* The call issued by this step, if the step issues one.
Issued == Len(calls') = Len(calls) + 1
NewCall == calls'[Len(calls')]

\* C1: once a UsePackage(name, ...) call has completed successfully, every
\* UsePackage(name, ...) call issued afterwards fails with AlreadyEnabled
\* before the import (it loads and instantiates nothing), emits no
\* packageUsed notification and leaves the entry enabled with the same
\* instance.
C1_ReRegisterFails ==
    [][ (Issued /\ Succeeded(NewCall.name) # {}) =>
          /\ NewCall.result = "AlreadyEnabled"
          /\ NewCall.pc = "done"
          /\ ~NewCall.awaited
          /\ NewCall.instance = Null
          /\ emitted' = emitted
          /\ Packages' = Packages
          /\ Packages'[NewCall.name].enabled
          /\ Packages'[NewCall.name].instance # Null ]_vars

C1_Witness ==
    \E i, j \in DOMAIN calls :
        /\ i < j
        /\ calls[i].name = calls[j].name
        /\ calls[i].result = "ok"
        /\ calls[j].result = "AlreadyEnabled"

\* C2: under any interleaving of UsePackage calls, a package name is
\* instantiated and installed at most once, so that an installed instance is
\* never replaced.
C2_InstalledAtMostOnce ==
    \A i, j \in DOMAIN calls :
        (/\ calls[i].name = calls[j].name
         /\ calls[i].instance # Null
         /\ calls[j].instance # Null) => i = j

\* C3: two UsePackage calls for one name that are both issued before either
\* resumes from the import (and before any call for the name has completed)
\* both pass the enabled check and reach the import: neither fails with
\* AlreadyEnabled, each whose export loads instantiates it, the entry holds
\* the instance of the later resumption, and packageUsed is emitted once per
\* instantiation (twice for the name when both load).
C3_RaceDoubleInstantiates ==
    /\ \A n \in DOMAIN Packages : EmittedFor(n) = Cardinality(Succeeded(n))
    /\ \A i, j \in DOMAIN calls :
        (i \in calls[j].pendingAtStart /\ calls[j].awaited) =>
          /\ calls[i].name = calls[j].name
          /\ calls[i].result # "AlreadyEnabled"
          /\ calls[j].result # "AlreadyEnabled"
          /\ (/\ calls[i].pc = "done" /\ Loadable(calls[i])
              /\ calls[j].pc = "done" /\ Loadable(calls[j])) =>
                /\ calls[i].result = "ok"
                /\ calls[j].result = "ok"
                /\ calls[i].instance # Null
                /\ calls[j].instance # Null
                /\ calls[i].instance # calls[j].instance
                /\ Packages[calls[i].name].enabled
                /\ Packages[calls[i].name].instance >= calls[i].instance
                /\ Packages[calls[i].name].instance >= calls[j].instance
                /\ EmittedFor(calls[i].name) >= 2

C3_Witness ==
    \E i, j \in DOMAIN calls :
        /\ i \in calls[j].pendingAtStart
        /\ calls[j].awaited
        /\ calls[i].result = "ok"
        /\ calls[j].result = "ok"
        /\ calls[i].instance < calls[j].instance
        /\ Packages[calls[i].name].instance = calls[j].instance
        /\ EmittedFor(calls[i].name) = 2

\* C4: an accessor returns the stored instance exactly when the entry is
\* enabled with a non-null instance, which is exactly when some UsePackage
\* call for the name has completed successfully; it fails with NotEnabled
\* otherwise, both when the entry is absent and when the entry exists only
\* because calls for the name are suspended on the import. Reading an
\* accessor changes nothing in the registry.
C4_FetchIffEnabled ==
    /\ [](\A name \in AccessorNames :
            /\ Fetch(name) # NotEnabled <=>
                 /\ name \in DOMAIN Packages
                 /\ Packages[name].enabled
                 /\ Packages[name].instance # Null
            /\ Fetch(name) # NotEnabled => Fetch(name) = Packages[name].instance
            /\ Succeeded(name) = {} => Fetch(name) = NotEnabled
            /\ Succeeded(name) # {} =>
                 \E i \in Succeeded(name) : Fetch(name) = calls[i].instance)
    /\ [][ fetched' # fetched =>
             /\ fetched'.result = Fetch(fetched'.name)
             /\ UNCHANGED <<Packages, calls, emitted>> ]_vars

C4_Witness ==
    /\ fetched.name \in DOMAIN Packages
    /\ Packages[fetched.name].enabled
    /\ fetched.result = Packages[fetched.name].instance
    /\ \E n \in AccessorNames :
         /\ n \in DOMAIN Packages
         /\ \E i \in Suspended : calls[i].name = n
         /\ Fetch(n) = NotEnabled

\* C5: a UsePackage call whose module does not expose exportName fails with
\* ExportNotFound, instantiates nothing, emits no packageUsed notification
\* and leaves the entry present with enabled = false and instance = null.
C5_ExportNotFoundLeavesDisabled ==
    [][ \A i \in DOMAIN calls :
          (calls[i].pc = "import" /\ calls'[i].result = "ExportNotFound") =>
             /\ calls'[i].instance = Null
             /\ emitted' = emitted
             /\ calls[i].name \in DOMAIN Packages'
             /\ Packages'[calls[i].name] =
                    [enabled |-> FALSE, instance |-> Null] ]_vars

(***************************************************************************)
(* Storage: properties.                                                    *)
(***************************************************************************)

\* C6: once a key holds a value of tag T the tag held under the key never
\* changes: a StoreData under the key with a value of another tag (or of no
\* tag) fails with a TypeError and leaves the whole storage unchanged, and a
\* StoreData with a value of tag T replaces the value and touches no other
\* key.
C6_TagOfKeyFixed ==
    /\ [][ \A key \in Keys, value \in Values :
             (StoreData(key, value) /\ Get(Storage, key).type # NoType) =>
                IF value.type = Get(Storage, key).type
                THEN /\ stored'.result = "ok"
                     /\ DOMAIN Storage' = DOMAIN Storage
                     /\ Storage'[key] = value
                     /\ \A k \in DOMAIN Storage \ {key} : Storage'[k] = Storage[k]
                ELSE /\ stored'.result = "TypeError"
                     /\ Storage' = Storage ]_vars
    /\ [][ \A key \in DOMAIN Storage :
             Storage[key].type # NoType =>
                /\ key \in DOMAIN Storage'
                /\ Storage'[key].type = Storage[key].type ]_vars

C6_Witness ==
    /\ stored.op = "StoreData"
    /\ stored.result = "TypeError"
    /\ stored.key \in DOMAIN Storage
    /\ Storage[stored.key].type = "String"
    /\ stored.value.type = "Int"
    /\ \E k \in DOMAIN Storage : Storage[k] = SaladString("b")

\* C7: for every key and every value, the first StoreData to a key that has
\* never been written does not fail, and the key afterwards holds the value.
C7_FirstStoreAccepted ==
    [][ \A key \in Keys, value \in Values :
          (StoreData(key, value) /\ key \notin DOMAIN Storage) =>
             /\ stored'.result = "ok"
             /\ key \in DOMAIN Storage'
             /\ Storage'[key] = value ]_vars

\* C8: RetData(k) returns the raw value of the value written by the most
\* recent successful StoreData to k, and undefined for every key that was
\* never written.
C8_RetrieveLastStored ==
    \A key \in Keys :
        RetDataResult(key) =
            IF key \in DOMAIN Storage THEN Storage[key].raw ELSE HUndefined

(***************************************************************************)
(* Overloadable: properties.                                               *)
(***************************************************************************)

\* The implementation the table holds for a signature (name, paramTypes).
Impl(sig) ==
    IF OverloadKey(sig[1], sig[2]) \in DOMAIN overloads
    THEN overloads[OverloadKey(sig[1], sig[2])]
    ELSE NoFn

\* C9: callOverload(name, ...args) invokes exactly the implementation
\* registered for the signature (name, tag sequence of args), with the same
\* arguments; if no implementation is registered for that exact name, arity
\* and tag order it fails without invoking any implementation.
C9_ExactDispatch ==
    [][ \A name \in OverloadNames, args \in ArgLists :
          callOverload(name, args) =>
             IF <<name, ArgTypes(args)>> \in DOMAIN defined
             THEN /\ dispatched'.result = "ok"
                  /\ dispatched'.invoked = defined[<<name, ArgTypes(args)>>]
                  /\ dispatched'.args = args
             ELSE /\ dispatched'.result = "Error"
                  /\ dispatched'.invoked = NoFn ]_vars

\* C10: after defineOverload(name, paramTypes, fn) the signature
\* (name, paramTypes) maps to fn and the implementation of every other
\* registered signature is unchanged; callOverload never changes the table.
C10_DefineFrame ==
    /\ [][ \A name \in OverloadNames, paramTypes \in ParamTypeLists, fn \in Fns :
             defineOverload(name, paramTypes, fn) =>
                /\ Impl(<<name, paramTypes>>)' = fn
                /\ \A sig \in DOMAIN defined \ {<<name, paramTypes>>} :
                      Impl(sig)' = Impl(sig) ]_vars
    /\ [][ \A name \in OverloadNames, args \in ArgLists :
             callOverload(name, args) => overloads' = overloads ]_vars

(***************************************************************************)
(* TypedIf: properties.                                                    *)
(***************************************************************************)

\* The most recent call was TypedIf, handed both callbacks.
Compared == evaluated.op = "TypedIf"
BothCallbacks ==
    /\ evaluated.callbacks[1].kind = "function"
    /\ evaluated.callbacks[2].kind = "function"

\* C11: for every valid typed value a, TypedIf(a, a, onEqual, onNotEqual)
\* invokes onEqual and does not invoke onNotEqual.
C11_CompareReflexive ==
    (/\ Compared
     /\ BothCallbacks
     /\ evaluated.args[1] = evaluated.args[2]
     /\ evaluated.args[1].type # NoType) =>
        evaluated.invoked = <<"onEqual">>

\* C12: TypedIf fails as untyped when expr1 or expr2 carries no tag, and
\* fails as a type mismatch whenever both carry tags and the tags differ,
\* whatever the raw values; in both cases no callback is invoked.
C12_CompareRejects ==
    Compared =>
        LET a == evaluated.args[1]
            b == evaluated.args[2]
        IN  /\ (a.type = NoType \/ b.type = NoType) =>
                 /\ evaluated.status = "TypeError"
                 /\ evaluated.line \in {820, 825}
                 /\ evaluated.invoked = <<>>
            /\ (a.type # NoType /\ b.type # NoType /\ a.type # b.type) =>
                 /\ evaluated.status = "TypeError"
                 /\ evaluated.line = 830
                 /\ evaluated.invoked = <<>>

C12_Witness ==
    /\ Compared
    /\ BothCallbacks
    /\ evaluated.args[1].type = "Int"
    /\ evaluated.args[2].type = "Float"
    /\ evaluated.args[1].raw = evaluated.args[2].raw
    /\ evaluated.status = "TypeError"
    /\ evaluated.line = 830

\* C13: for tagged operands with equal tags, TypedIf invokes onEqual exactly
\* once and onNotEqual not at all when the raw values are equal, and
\* onNotEqual exactly once and onEqual not at all when they differ; an
\* omitted onNotEqual is a silent no-op.
C13_CompareBranches ==
    (/\ Compared
     /\ evaluated.args[1].type # NoType
     /\ evaluated.args[1].type = evaluated.args[2].type
     /\ evaluated.callbacks[1].kind = "function") =>
        /\ evaluated.status = "ok"
        /\ evaluated.invoked =
              IF evaluated.args[1].raw = evaluated.args[2].raw
              THEN <<"onEqual">>
              ELSE IF evaluated.callbacks[2].kind = "function"
                   THEN <<"onNotEqual">>
                   ELSE <<>>

(***************************************************************************)
(* Generic list: properties.                                               *)
(***************************************************************************)

\* C14: in a generic list of expected tag T every element has tag T, the
\* length is the number of successful adds (those of the constructor
\* included), and add(item) either appends item at the end (item's tag is T)
\* or fails with a TypeError and leaves the list unchanged (any other item,
\* untagged ones included).
C14_ListInvariant ==
    [][ /\ \A i \in 1..Len(genericList'.items) :
              genericList'.items[i].type = genericList'.expectedType
        /\ Len(genericList'.items) = added'
        /\ \A item \in ListItems :
              add(item) =>
                 IF item.type = genericList.expectedType
                 THEN /\ genericList'.items = Append(genericList.items, item)
                      /\ genericList'.status = "ok"
                 ELSE /\ genericList'.items = genericList.items
                      /\ genericList'.status = "TypeError"
        /\ \A expectedTypeName \in ExpectedTypeNames, elements \in ElementLists :
              GenericList(expectedTypeName, elements) =>
                 IF \A i \in 1..Len(elements) : elements[i].type = expectedTypeName
                 THEN /\ genericList'.constructed
                      /\ genericList'.items = elements
                 ELSE /\ ~genericList'.constructed
                      /\ genericList'.status = "TypeError"
      ]_vars

\* A list of strings holds two different elements and has just refused an
\* item.
C14_Witness ==
    /\ genericList.constructed
    /\ genericList.expectedType = "String"
    /\ Len(genericList.items) = 2
    /\ genericList.items[1] # genericList.items[2]
    /\ added = 2
    /\ genericList.status = "TypeError"

(***************************************************************************)
(* Constructors: properties.                                               *)
(***************************************************************************)

\* The most recent call was a constructor; the arguments it was given.
Constructed == evaluated.op = "new"
Given(i) == evaluated.args[i]

\* The host kind the tag asks of its raw value: a string for String, a
\* number for Int and Float, a boolean for Bool, a Date or a timestamp for
\* Date, string or number coordinates for Vec2 and Vec3, an array for Array,
\* an object that is no array for Object.
KindMatches(tag, args) ==
    CASE tag = "String" -> args[1].kind = "string"
      [] tag \in {"Int", "Float"} -> args[1].kind = "number"
      [] tag = "Bool" -> args[1].kind = "boolean"
      [] tag = "Date" ->
            args[1].kind = "number" \/ (args[1].kind = "object" /\ args[1].str = "Date")
      [] tag \in {"Vec2", "Vec3"} ->
            \A i \in 1..Arity(tag) : args[i].kind \in {"string", "number"}
      [] tag = "Array" -> args[1].kind = "object" /\ args[1].str = "Array"
      [] OTHER -> args[1].kind = "object" /\ args[1].str # "Array"

\* The raw value a one-argument constructor was given, as valueOf() should
\* give it back: the value itself, and for a Date its timestamp.
RawGiven ==
    IF Given(1).kind = "object" /\ Given(1).str = "Date"
       /\ evaluated.tag = "Date"
    THEN HNumber(Given(1).num)
    ELSE Given(1)

C17_RenderIsTypedString ==
    evaluated.op = "toString" =>
        /\ evaluated.status = "ok"
        /\ evaluated.result.type = "String"
        /\ evaluated.tag = "String" => evaluated.result.raw = evaluated.args[1]

(***************************************************************************)
(* Concat: properties.                                                     *)
(***************************************************************************)

\* C18: Concat(a, b) fails as untyped when a or b carries no tag, fails as a
\* type mismatch when the tags differ or the common tag is neither String
\* nor Int, and otherwise returns a new object tagged String whose raw value
\* is the text of a's raw value followed by that of b's (two Ints join their
\* digits, they are not added); Packages and Storage are left as they were.
C18_Concat ==
    [][ \A a \in Operands, b \in Operands :
          Concat(a, b) =>
            /\ UNCHANGED <<Packages, Storage>>
            /\ IF a.type = NoType \/ b.type = NoType
               THEN /\ evaluated'.status = "TypeError"
                    /\ evaluated'.line \in {901, 902, 917, 922}
               ELSE IF a.type # b.type \/ a.type \notin {"String", "Int"}
               THEN /\ evaluated'.status = "TypeError"
                    /\ evaluated'.line \in {907, 912}
               ELSE /\ evaluated'.status = "ok"
                    /\ evaluated'.result.type = "String"
                    /\ evaluated'.result.raw.kind = "string"
                    /\ evaluated'.result.raw.str =
                          (IF a.type = "String" THEN a.raw.str ELSE NumberToString(a.raw))
                          \o (IF b.type = "String" THEN b.raw.str ELSE NumberToString(b.raw))
            /\ (a = SaladInt(1) /\ b = SaladInt(2)) =>
                  evaluated'.result = SaladString("12")
      ]_vars

\* Two Ints have been concatenated to the text of their digits.
C18_Witness ==
    /\ evaluated.op = "Concat"
    /\ evaluated.args = <<SaladInt(1), SaladInt(2)>>
    /\ evaluated.status = "ok"
    /\ evaluated.result = SaladString("12")

(***************************************************************************)
(* Print: properties.                                                      *)
(***************************************************************************)

Objects == 1..Len(arrays.refs)

\* C20: a.slice(i, j) is a new SaladArray holding the elements of the
\* sub-range of a in order, over an array of its own: no object existing
\* before changes, and every later push or pop on one object leaves the
\* length and elements of every other object as they were.
C20_SliceNoAliasing ==
    [][ /\ \A k \in Objects, start \in Indices, end \in Indices :
              slice(k, start, end) =>
                 LET a == Contents(arrays, k)
                     n == Len(arrays.refs) + 1
                     s == Contents(arrays', n)
                 IN  /\ Len(arrays'.refs) = n
                     /\ arrays'.refs[n] \notin {arrays.refs[m] : m \in Objects}
                     /\ \A m \in Objects : Contents(arrays', m) = Contents(arrays, m)
                     /\ \E lo \in 1..(Len(a) + 1), hi \in 0..Len(a) :
                           s = SubSeq(a, lo, hi)
                     /\ (0 <= start /\ start <= end /\ end <= Len(a)) =>
                           s = SubSeq(a, start + 1, end)
                     /\ (start = 0 /\ end >= Len(a)) => s = a
                     /\ (start = -1 /\ end >= Len(a) /\ a # <<>>) =>
                           s = <<a[Len(a)]>>
        /\ \A k \in Objects :
              ((\E item \in ArrayItems : push(k, item)) \/ pop(k)) =>
                 \A m \in Objects \ {k} : Contents(arrays', m) = Contents(arrays, m)
      ]_vars

\* A slice of a two-element array has been emptied by pop while the array
\* it was taken from still holds its two elements.
C20_Witness ==
    /\ Len(arrays.refs) = 2
    /\ Contents(arrays, 1) = <<SaladInt(1), SaladInt(2)>>
    /\ Contents(arrays, 2) = <<>>
    /\ arrays.returned = SaladInt(2)
    /\ arrays.refs[1] # arrays.refs[2]

(***************************************************************************)
(* SaladObject: properties.                                                *)
(***************************************************************************)

\* C21: new SaladObject(obj) fails with a TypeError, building nothing, when
\* obj is an array, null or no object; on a SaladObject built, set(k, v)
\* makes get(k) return v (so the last set to a key wins) and leaves what
\* get returns for every other key as it was.
C21_KeyedContainer ==
    [][ /\ \A obj \in BackingData :
              (NewSaladObject(obj) /\ obj # HUndefined
               /\ (obj.kind # "object" \/ obj.str = "Array")) =>
                 /\ ~saladObject'.constructed
                 /\ saladObject'.status = "TypeError"
        /\ \A key \in ObjectKeys, value \in ObjectValues :
              set(key, value) =>
                 /\ GetProperty(saladObject', key) = value
                 /\ \A other \in ObjectKeys \ {key} :
                       GetProperty(saladObject', other) = GetProperty(saladObject, other)
      ]_vars

(***************************************************************************)
(* EventEmitter: properties.                                               *)
(***************************************************************************)

\* The invocations an emit of eventName with arg makes when it invokes the
\* listeners in list, once each and in order.
InOrder(list, eventName, arg) ==
    [i \in 1..Len(list) |-> [listener |-> list[i], event |-> eventName, arg |-> arg]]

\* C25: emit(e, arg) invokes, in registration order and once each, exactly
\* the listeners registered for e before the emit began, with arg, and no
\* listener of another event; a listener registered for e by a listener
\* during the emit is not invoked by that emit; with no listeners for e it
\* does nothing. (Stated for emits in which no listener throws.)
C25_EmitSnapshot ==
    [][ \A eventName \in EventNames, arg \in EventArgs :
          (emit(eventName, arg) /\ invocations'.status = "ok") =>
             invocations'.made =
                 IF eventName \in DOMAIN listeners
                 THEN InOrder(listeners[eventName], eventName, arg)
                 ELSE <<>>
      ]_vars

(***************************************************************************)
(* Registry with packageUsed listeners: properties.                        *)
(***************************************************************************)

\* Where a package name stands: no entry (0, UNREGISTERED), an entry that is
\* not enabled (1, REGISTERING), an enabled entry (2, ENABLED).
Rank(P, name) ==
    IF name \notin DOMAIN P THEN 0 ELSE IF P[name].enabled THEN 2 ELSE 1
PackageNames == {req.name : req \in Requests}

\* The suspended call that this step resumes and ends, if it does.
Resumed(i) == calls[i].pc = "import" /\ calls'[i].pc = "done"

\* C22: an enabled entry stays: after every step (a registration issued or
\* resumed, successful or failing, a listener run, an accessor read) the
\* entry still exists and is enabled with an instance; a name only moves
\* from no entry to an entry not enabled to an enabled entry, one stage at
\* a time and never back.
C22_EnabledPermanent ==
    [][ \A name \in PackageNames :
          /\ Rank(Packages', name) >= Rank(Packages, name)
          /\ Rank(Packages', name) <= Rank(Packages, name) + 1
          /\ Rank(Packages, name) = 2 =>
                /\ Packages'[name].enabled
                /\ Packages'[name].instance # Null
      ]_vars

\* An enabled package, with a packageUsed listener registered, after a later
\* registration of it was refused.
C22_Witness ==
    /\ "SaladMath" \in DOMAIN Packages
    /\ Packages["SaladMath"].enabled
    /\ \E i, j \in DOMAIN calls :
          /\ i < j
          /\ calls[i].name = "SaladMath" /\ calls[i].instance # Null
          /\ calls[j].name = "SaladMath" /\ calls[j].result = "AlreadyEnabled"
    /\ "packageUsed" \in DOMAIN listeners

\* C23: a registration that succeeds emits exactly one packageUsed with its
\* name, after the entry is enabled with the instance installed (a listener
\* reading the accessor gets that instance); a registration that fails
\* emits none.
C23_NotifyAfterEnabled ==
    [][ /\ \A i \in DOMAIN calls :
              Resumed(i) =>
                 IF calls'[i].result = "ok"
                 THEN /\ emitted' = Append(emitted, calls[i].name)
                      /\ Packages'[calls[i].name] =
                            [enabled |-> TRUE, instance |-> calls'[i].instance]
                      /\ \A k \in DOMAIN invocations'.made :
                            invocations'.made[k].listener = "fetch" =>
                               fetched' = [name |-> calls[i].name,
                                           result |-> calls'[i].instance]
                 ELSE emitted' = emitted
        /\ (Issued /\ NewCall.pc = "done") => emitted' = emitted
      ]_vars

\* C27: a registration that fails, whatever the reason (already enabled,
\* import, missing export, constructor, a packageUsed listener), leaves the
\* enabled flag and the instance of the entry as they were before.
C27_FailureLeavesEntry ==
    [][ /\ \A i \in DOMAIN calls :
              (Resumed(i) /\ calls'[i].result # "ok") =>
                 Packages'[calls[i].name] = Packages[calls[i].name]
        /\ (Issued /\ NewCall.pc = "done") =>
              Packages'[NewCall.name] =
                 EnsureEntry(Packages, NewCall.name)[NewCall.name]
      ]_vars

(***************************************************************************)
(* readJSON: properties.                                                   *)
(***************************************************************************)

\* The conversion as described: strings wrapped, arrays and objects wrapped
\* over the converted elements and property values, everything else as it
\* is.
RECURSIVE Converted(_)
Converted(value) ==
    CASE value.kind = "array" ->
            Json("SaladArray", [i \in 1..Len(value.val) |-> Converted(value.val[i])])
      [] value.kind = "object" ->
            Json("SaladObject", [key \in DOMAIN value.val |-> Converted(value.val[key])])
      [] value.kind = "string" -> Json("SaladString", value.val)
      [] OTHER -> value

\* C24: readJSON gives the parsed value converted recursively: a string as
\* a SaladString, an array as a SaladArray of the converted elements, an
\* object as a SaladObject of the converted property values (the values
\* themselves, not promises), numbers, booleans and null as they are.
C24_ConvertedRecursively ==
    evaluated.op = "readJSON" =>
        evaluated.result = Converted(evaluated.args[1])

(***************************************************************************)
(* Overloadable: signatures.                                               *)
(***************************************************************************)

\* C26: signatures never collide: a call whose name and argument tags form
\* one pair invokes only an implementation registered under that very pair
\* (never one registered under another pair, such as the single tag
\* "String,Int" for a call with a String and an Int), and defineOverload
\* for one pair never replaces the implementation of another.
C26_NoCollision ==
    /\ [][ \A name \in OverloadNames, args \in ArgLists :
             (callOverload(name, args) /\ dispatched'.invoked # NoFn) =>
                /\ <<name, ArgTypes(args)>> \in DOMAIN defined
                /\ dispatched'.invoked = defined[<<name, ArgTypes(args)>>] ]_vars
    /\ [][ \A name \in OverloadNames, paramTypes \in ParamTypeLists, fn \in Fns :
             defineOverload(name, paramTypes, fn) =>
                \A sig \in DOMAIN defined :
                   (sig # <<name, paramTypes>> /\ Impl(sig) = defined[sig]) =>
                       Impl(sig)' = defined[sig] ]_vars

(***************************************************************************)
(* TypedIf on vectors: properties.                                         *)
(***************************************************************************)

\* C28: for two Vec2 (or two Vec3) objects TypedIf invokes onEqual if and
\* only if the coordinates are identical component by component, and
\* onNotEqual when they differ in any coordinate, be it only in host kind
\* (string or number) or in where a comma stands.
C28_VectorsEqualIffSameCoordinates ==
    evaluated.op = "TypedIfVectors" =>
        /\ evaluated.status = "ok"
        /\ evaluated.invoked =
              IF evaluated.args[1] = evaluated.args[2]
              THEN <<"onEqual">>
              ELSE <<"onNotEqual">>

====
